---- MODULE Spec2Model ----
(***************************************************************************)
(* Model of history_extractor.py: the reconstruction of a conversation's   *)
(* transcript from its parent-linked node graph (get_conversation_messages)*)
(* and the run that writes one transcript file per conversation, the       *)
(* in-memory summary and the manifest (write_conversations_and_summary).   *)
(*                                                                         *)
(* Python dicts are records whose keys may be absent; d.get(k, default) is *)
(* Get(d, k, default).  Strings are TLA+ strings, lists are sequences.     *)
(* None and "" are both falsy for `while current_node`, so an absent       *)
(* current_node / parent is the empty string.                              *)
(***************************************************************************)
EXTENDS Integers, Sequences, FiniteSets, TLC

VARIABLES
    \* --- get_conversation_messages (one call) ---
    conversation,              \* the argument of the call
    current_node,              \* the loop variable of the walk
    messages,                  \* the list being appended to (leaf-to-root)
    result,                    \* the returned list (messages[::-1])
    wpc,                       \* "loop" | "done"
    visits,                    \* loop iterations that found their node in mapping
    \* --- write_conversations_and_summary (one run) ---
    conversations_data,        \* the input list
    idx,                       \* index of the next conversation of the for loop
    created_directories_info,  \* the manifest
    conversation_summary,      \* dict: directory name -> list of entries
    directories,               \* directories existing under output_dir
    files,                     \* dict: file path -> file content (list of lines)
    summary_file,              \* content of conversation_summary.json, <<>> if not written
    summary_writes,            \* number of times this run wrote the summary file
    pc                         \* "loop" | "done" | "aborted" | "idle"

walkVars == <<conversation, current_node, messages, result, wpc, visits>>
runVars == <<conversations_data, idx, created_directories_info, conversation_summary,
             directories, files, summary_file, summary_writes, pc>>
vars == <<conversation, current_node, messages, result, wpc, visits,
          conversations_data, idx, created_directories_info, conversation_summary,
          directories, files, summary_file, summary_writes, pc>>

----------------------------------------------------------------------------
(* Bounds of the model *)

\* Cap on the iterations of the walk explored on a cyclic mapping (the code has none).
MaxSteps == 5
\* Largest number of conversations in the input list.
MaxConvs == 3

----------------------------------------------------------------------------
(* Python helpers *)

EmptyDict == [k \in {} |-> ""]

Get(d, k, default) == IF k \in DOMAIN d THEN d[k] ELSE default

Reverse(s) == [i \in 1..Len(s) |-> s[Len(s) + 1 - i]]

----------------------------------------------------------------------------
(* extract_message_parts, get_author_name *)

extract_message_parts(message) ==
    LET content == Get(message, "content", EmptyDict)
    IN  IF DOMAIN content # {} /\ Get(content, "content_type", "") = "text"
        THEN Get(content, "parts", <<>>)
        ELSE <<>>

\* The role is returned as it is, without the display labels.
get_author_name_raw(message) ==
    Get(Get(message, "author", EmptyDict), "role", "")

get_author_name(message) ==
    LET author == Get(Get(message, "author", EmptyDict), "role", "")
    IN  IF author = "assistant" THEN "ChatGPT"
        ELSE IF author = "system" THEN "Custom user info"
        ELSE author

\* message.get("metadata", {}).get("is_user_system_message"), as a truth value
is_user_system_message(message) ==
    Get(Get(message, "metadata", EmptyDict), "is_user_system_message", FALSE)

\* The list is returned in the order it was collected (leaf first).
ReturnedUnreversed(msgs) == msgs

\* Line 75: messages[::-1].
Returned(msgs) == Reverse(msgs)

\* Lines 64-65: the node looked up for an id and its message, {} when there is none.
NodeOf(mapping, id) == Get(mapping, id, EmptyDict)

MessageOf(node) == Get(node, "message", EmptyDict)

\* Lines 66-73: what one loop iteration appends to messages for a node: a list
\* of zero or one entry.
NodeEntries(node) ==
    LET message == MessageOf(node)
        parts == extract_message_parts(message)
        author == get_author_name(message)
    IN  IF DOMAIN message # {}
           /\ Len(parts) > 0 /\ parts[1] # ""
           /\ (author # "system" \/ is_user_system_message(message))
        THEN << [author |-> author, text |-> parts[1]] >>
        ELSE << >>

\* Line 74: the next current_node.
ParentOf(node) == Get(node, "parent", "")

----------------------------------------------------------------------------
(* Inputs of get_conversation_messages *)

NodeIds == {"a", "b", "c"}

\* An id no node of the mapping has (a dangling reference).
Dangling == "zz"

TextContent(parts) == [content_type |-> "text", parts |-> parts]

MessageDicts ==
    { [author |-> [role |-> "assistant"], content |-> TextContent(<<"answer">>)],
      [author |-> [role |-> "system"], content |-> TextContent(<<"rules">>)],
      [author |-> [role |-> "system"], content |-> TextContent(<<"about me">>),
       metadata |-> [is_user_system_message |-> TRUE]],
      [author |-> [role |-> "user"], content |-> TextContent(<<"question", "more">>)],
      [content |-> TextContent(<<"orphan">>)],
      [author |-> [role |-> "user"], content |-> TextContent(<<"">>)],
      [author |-> [role |-> "tool"],
       content |-> [content_type |-> "code", parts |-> <<"x = 1">>]] }

NodeDicts ==
    {[message |-> m, parent |-> p] : m \in MessageDicts, p \in NodeIds \cup {Dangling}}
    \cup {[message |-> m] : m \in MessageDicts}
    \cup {[parent |-> p] : p \in NodeIds \cup {Dangling}}
    \cup {EmptyDict}

\* conversation.get("current_node"): a node id, a dangling id, or absent.
CurrentNodeChoices == NodeIds \cup {Dangling, ""}

WalkConversation(c, na, nb, nc) ==
    LET mapping == [a |-> na, b |-> nb, c |-> nc]
    IN  IF c = "" THEN [mapping |-> mapping]
        ELSE [current_node |-> c, mapping |-> mapping]

----------------------------------------------------------------------------
(* get_conversation_messages, one loop iteration per step *)

\* Lines 60-62.
WalkEntry(conv) ==
    /\ conversation = conv
    /\ current_node = Get(conv, "current_node", "")
    /\ messages = << >>
    /\ result = << >>
    /\ wpc = "loop"
    /\ visits = 0

\* Lines 63-74: one iteration of `while current_node`.
WalkStep ==
    /\ wpc = "loop"
    /\ current_node # ""
    /\ visits < MaxSteps
    /\ LET mapping == Get(conversation, "mapping", EmptyDict)
           node == NodeOf(mapping, current_node)
       IN  /\ messages' = messages \o NodeEntries(node)
           /\ current_node' = ParentOf(node)
           /\ visits' = IF current_node \in DOMAIN mapping THEN visits + 1 ELSE visits
    /\ UNCHANGED <<conversation, result, wpc>>
    /\ UNCHANGED runVars

\* Line 75: the loop has ended, return messages[::-1].
WalkReturn ==
    /\ wpc = "loop"
    /\ current_node = ""
    /\ result' = Returned(messages)
    /\ wpc' = "done"
    /\ UNCHANGED <<conversation, current_node, messages, visits>>
    /\ UNCHANGED runVars

RunIdle ==
    /\ conversations_data = << >>
    /\ idx = 1
    /\ created_directories_info = << >>
    /\ conversation_summary = EmptyDict
    /\ directories = {}
    /\ files = EmptyDict
    /\ summary_file = << >>
    /\ summary_writes = 0
    /\ pc = "idle"

InitWalk ==
    /\ \E c \in CurrentNodeChoices : \E na \in NodeDicts, nb \in NodeDicts, nc \in NodeDicts :
          WalkEntry(WalkConversation(c, na, nb, nc))
    /\ RunIdle

NextWalk == WalkStep \/ WalkReturn

SpecWalk == InitWalk /\ [][NextWalk]_vars

----------------------------------------------------------------------------
(* Vocabulary of the claims about get_conversation_messages *)

RECURSIVE PathFrom(_, _, _)
\* The nodes reached from id by following parent links, leaf first, at most
\* fuel of them; it ends at an absent parent or at an id the mapping lacks.
PathFrom(mapping, id, fuel) ==
    IF id = "" \/ id \notin DOMAIN mapping \/ fuel = 0 THEN << >>
    ELSE << mapping[id] >> \o PathFrom(mapping, Get(mapping[id], "parent", ""), fuel - 1)

MappingOf(conv) == Get(conv, "mapping", EmptyDict)

MappingSize(conv) == Cardinality(DOMAIN MappingOf(conv))

\* The active path of a conversation, root first.
ActivePath(conv) ==
    Reverse(PathFrom(MappingOf(conv), Get(conv, "current_node", ""), MappingSize(conv)))

\* No parent chain of the mapping runs into a cycle.
IsTree(conv) ==
    \A id \in DOMAIN MappingOf(conv) :
        Len(PathFrom(MappingOf(conv), id, MappingSize(conv) + 1)) <= MappingSize(conv)

HasMessage(node) == "message" \in DOMAIN node

RoleOf(node) ==
    IF HasMessage(node) /\ "author" \in DOMAIN node.message
       /\ "role" \in DOMAIN node.message.author
    THEN node.message.author.role ELSE ""

Flagged(node) ==
    /\ HasMessage(node) /\ "metadata" \in DOMAIN node.message
    /\ "is_user_system_message" \in DOMAIN node.message.metadata
    /\ node.message.metadata.is_user_system_message = TRUE

\* The node's message has textual content whose first part is a non-empty string.
HasText(node) ==
    /\ HasMessage(node) /\ "content" \in DOMAIN node.message
    /\ "content_type" \in DOMAIN node.message.content
    /\ node.message.content.content_type = "text"
    /\ "parts" \in DOMAIN node.message.content
    /\ Len(node.message.content.parts) > 0
    /\ node.message.content.parts[1] # ""

FirstText(node) == IF HasText(node) THEN node.message.content.parts[1] ELSE ""

HiddenSystem(node) == HasText(node) /\ RoleOf(node) = "system" /\ ~Flagged(node)

Texts(entries) == [i \in 1..Len(entries) |-> entries[i].text]

\* The subsequence of s at the positions in P, in order.
RECURSIVE Pick(_, _, _)
Pick(s, P, i) ==
    IF i > Len(s) THEN << >>
    ELSE (IF i \in P THEN << s[i] >> ELSE << >>) \o Pick(s, P, i + 1)

----------------------------------------------------------------------------
(* Claims about get_conversation_messages, checked under SpecWalk *)

\* C1: a system message on the active path without a true
\* is_user_system_message flag never appears in the returned list, under any label.
C1_HiddenSystemNeverShown ==
    wpc = "done" =>
        \A k \in 1..Len(ActivePath(conversation)) :
            HiddenSystem(ActivePath(conversation)[k]) =>
                \A i \in 1..Len(result) :
                    result[i].text # FirstText(ActivePath(conversation)[k])

\* C2: the walk visits at most as many nodes as the mapping contains, also when
\* the parent links form a cycle reachable from current_node.
C2_WalkBoundedByMapping == visits <= MappingSize(conversation)

\* C5: the returned list takes its entries only from the nodes of the parent
\* chain of current_node, in root-to-leaf order, each node at most once; a chain
\* node without message or without non-empty first text part contributes nothing
\* and does not stop the walk: every chain node with non-empty text that the role
\* rule does not hide contributes, whatever lies below it.
C5_TranscriptIsActivePath ==
    wpc = "done" =>
        LET path == ActivePath(conversation)
            withText == {k \in 1..Len(path) : HasText(path[k])}
            mustShow == {k \in withText : ~HiddenSystem(path[k])}
        IN  \E P \in SUBSET withText :
                /\ mustShow \subseteq P
                /\ Texts(result) = Pick([k \in 1..Len(path) |-> FirstText(path[k])], P, 1)

C5_Witness ==
    /\ wpc = "done"
    /\ IsTree(conversation)
    /\ LET path == ActivePath(conversation)
       IN  /\ Len(path) = 2
           /\ HasText(path[1]) /\ ~HiddenSystem(path[1])
           /\ ~HasText(path[2])
           /\ Len(result) = 1
           /\ \E id \in DOMAIN MappingOf(conversation) :
                 /\ HasText(MappingOf(conversation)[id])
                 /\ \A k \in 1..2 : path[k] # MappingOf(conversation)[id]

\* The label the role rule gives a role.
LabelFor(role) ==
    IF role = "assistant" THEN "ChatGPT"
    ELSE IF role = "system" THEN "Custom user info"
    ELSE role

\* C6: every message of the active path with a non-empty first text part whose
\* role is "assistant", "system" with a true flag, or anything else (an absent
\* role included) is in the returned list, under "ChatGPT", "Custom user info"
\* or its raw role, and with its first text part unchanged.
C6_LabelsAndText ==
    wpc = "done" =>
        \A k \in 1..Len(ActivePath(conversation)) :
            LET node == ActivePath(conversation)[k]
            IN  (HasText(node) /\ ~HiddenSystem(node)) =>
                    \E i \in 1..Len(result) :
                        result[i] = [author |-> LabelFor(RoleOf(node)),
                                     text |-> FirstText(node)]

C6_Witness ==
    /\ wpc = "done"
    /\ LET path == ActivePath(conversation)
       IN  /\ Len(path) = 3
           /\ RoleOf(path[1]) = "system" /\ Flagged(path[1]) /\ HasText(path[1])
           /\ RoleOf(path[2]) = "" /\ HasText(path[2])
           /\ RoleOf(path[3]) = "assistant" /\ HasText(path[3])
           /\ result = << [author |-> "Custom user info", text |-> "about me"],
                          [author |-> "", text |-> "orphan"],
                          [author |-> "ChatGPT", text |-> "answer"] >>

----------------------------------------------------------------------------
(* get_conversation_messages as a function of its argument *)

RECURSIVE WalkFrom(_, _)
\* Lines 63-74: the list messages holds when the loop that starts at id ends.
WalkFrom(mapping, id) ==
    IF id = "" THEN << >>
    ELSE NodeEntries(NodeOf(mapping, id)) \o WalkFrom(mapping, ParentOf(NodeOf(mapping, id)))

get_conversation_messages(conv) ==
    Returned(WalkFrom(Get(conv, "mapping", EmptyDict), Get(conv, "current_node", "")))

\* The stepwise walk and the function agree wherever the walk returns.
WalkAgrees == wpc = "done" => result = get_conversation_messages(conversation)

----------------------------------------------------------------------------
(* Dates: datetime.fromtimestamp and strftime (local time taken to be UTC) *)

\* Days since 1970-01-01 to the civil date of the proleptic Gregorian calendar.
CivilFromDays(days) ==
    LET z == days + 719468
        era == z \div 146097
        doe == z - era * 146097
        yoe == (doe - doe \div 1460 + doe \div 36524 - doe \div 146096) \div 365
        doy == doe - (365 * yoe + yoe \div 4 - yoe \div 100)
        mp == (5 * doy + 2) \div 153
        d == doy - (153 * mp + 2) \div 5 + 1
        m == IF mp < 10 THEN mp + 3 ELSE mp - 9
        y == yoe + era * 400 + (IF m <= 2 THEN 1 ELSE 0)
    IN  [year |-> y, month |-> m, day |-> d]

fromtimestamp(t) ==
    LET civil == CivilFromDays(t \div 86400)
        secs == t % 86400
    IN  [year |-> civil.year, month |-> civil.month, day |-> civil.day,
         hour |-> secs \div 3600, minute |-> (secs % 3600) \div 60, second |-> secs % 60]

\* Two-digit, zero-padded decimal (%m, %d, %H, %M, %S).
Pad2(n) == IF n < 10 THEN "0" \o ToString(n) ELSE ToString(n)

\* strftime("%Y_%m")
StrfYearMonth(date) == ToString(date.year) \o "_" \o Pad2(date.month)

\* strftime("%Y_%m_%d")
StrfYearMonthDay(date) == StrfYearMonth(date) \o "_" \o Pad2(date.day)

\* strftime("%Y-%m-%d %H:%M:%S")
StrfDateTime(date) ==
    ToString(date.year) \o "-" \o Pad2(date.month) \o "-" \o Pad2(date.day) \o " "
    \o Pad2(date.hour) \o ":" \o Pad2(date.minute) \o ":" \o Pad2(date.second)

----------------------------------------------------------------------------
(* sanitize_title, create_directory, create_file_name *)

\* Longest sanitized title (title[:140]).
MaxTitleLen == 140

\* A title is a sequence of characters, each a one-character string; a character
\* outside ASCII is written as its code point ("U+FF1A").
RECURSIVE Join(_)
Join(s) == IF s = << >> THEN "" ELSE Head(s) \o Join(Tail(s))

\* unicodedata.normalize("NFKC", c) for one character.
NFKC(c) ==
    CASE c = "U+FF1A" -> << ":" >>          \* FULLWIDTH COLON
      [] c = "U+FF0F" -> << "/" >>          \* FULLWIDTH SOLIDUS
      [] c = "U+00A0" -> << " " >>          \* NO-BREAK SPACE
      [] c = "U+FB01" -> << "f", "i" >>     \* LATIN SMALL LIGATURE FI
      [] OTHER -> << c >>

\* The character class [<>:"/\\|?*\x00-\x1F\s].
ReplacedChars ==
    {"<", ">", ":", "\"", "/", "\\", "|", "?", "*"}
    \cup {"U+0000", "U+001F", "\t", "\n", "\r", "\f"}
    \cup {" ", "U+2028", "U+3000"}

Substitute(c) == IF c \in ReplacedChars THEN "_" ELSE c

\* Line 105, character by character.
RECURSIVE Normalize(_)
Normalize(title) ==
    IF title = << >> THEN << >> ELSE NFKC(Head(title)) \o Normalize(Tail(title))

sanitize_title(title) ==
    LET normalized == Normalize(title)
        replaced == [i \in 1..Len(normalized) |-> Substitute(normalized[i])]
    IN  SubSeq(replaced, 1, IF Len(replaced) < MaxTitleLen THEN Len(replaced) ELSE MaxTitleLen)

output_dir == "history"

\* Lines 89-90: the directory's name and its path under base_dir.
directory_name(date) == StrfYearMonth(date)

directory_path_of(base_dir, date) == base_dir \o "/" \o directory_name(date)

\* Line 91: mkdir(parents=True, exist_ok=True).
create_directory(dirs, base_dir, date) == dirs \cup {directory_path_of(base_dir, date)}

create_file_name(directory_path, title, date) ==
    directory_path \o "/" \o StrfYearMonthDay(date) \o "_" \o Join(sanitize_title(title))
    \o ".txt"

----------------------------------------------------------------------------
(* write_messages_to_file, update_conversation_summary, write_summary_json *)

\* Lines 137-139: the lines written for a list of messages.
RECURSIVE FileLines(_)
FileLines(msgs) ==
    IF msgs = << >> THEN << >>
    ELSE << Head(msgs).author, Head(msgs).text >> \o FileLines(Tail(msgs))

\* dict[key] = value
Put(d, key, value) == [k \in DOMAIN d \cup {key} |-> IF k = key THEN value ELSE d[k]]

\* The file is opened for appending instead of being truncated.
write_messages_to_file_append(fs, file_path, msgs) ==
    Put(fs, file_path, Get(fs, file_path, << >>) \o FileLines(msgs))

\* Line 136: open(file_path, "w") creates or truncates; a file is its list of lines.
write_messages_to_file(fs, file_path, msgs) == Put(fs, file_path, FileLines(msgs))

Untitled == << "U", "n", "t", "i", "t", "l", "e", "d" >>

\* The entry is put at the head of the group's list instead of its end.
update_conversation_summary_prepend(summary, dir_name, conv, date, msgs) ==
    Put(summary, dir_name,
        << [title |-> Join(Get(conv, "title", Untitled)),
            create_time |-> StrfDateTime(fromtimestamp(conv.create_time)),
            update_time |-> StrfDateTime(date),
            messages |-> msgs] >> \o Get(summary, dir_name, << >>))

update_conversation_summary(summary, dir_name, conv, date, msgs) ==
    Put(summary, dir_name,
        Append(Get(summary, dir_name, << >>),
               [title |-> Join(Get(conv, "title", Untitled)),
                create_time |-> StrfDateTime(fromtimestamp(conv.create_time)),
                update_time |-> StrfDateTime(date),
                messages |-> msgs]))

\* Lines 176-178: the content of conversation_summary.json after the dump.
write_summary_json(summary) == << summary >>

----------------------------------------------------------------------------
(* Inputs of write_conversations_and_summary *)

UserMessage(text) == [author |-> [role |-> "user"], content |-> TextContent(<<text>>)]

AssistantMessage(text) ==
    [author |-> [role |-> "assistant"], content |-> TextContent(<<text>>)]

\* Three conversation bodies with different transcripts; the second has a branch
\* that was abandoned (node "x") and a root without message.
Bodies ==
    << [current_node |-> "u1",
        mapping |-> [r |-> [parent |-> ""], u1 |-> [message |-> UserMessage("hi"), parent |-> "r"]]],
       [title |-> << "Q", ":", "A" >>,
        current_node |-> "a1",
        mapping |-> [r |-> EmptyDict,
                     q1 |-> [message |-> UserMessage("question"), parent |-> "r"],
                     x |-> [message |-> AssistantMessage("draft"), parent |-> "q1"],
                     a1 |-> [message |-> AssistantMessage("answer"), parent |-> "q1"]]],
       [title |-> << "Q", "U+FF1A", "A" >>,
        current_node |-> "n",
        mapping |-> [n |-> [message |-> UserMessage("other")]]] >>

\* The update_time values each body is given: 2024-03-05 18:30:00,
\* 2024-03-06 08:00:00, 2024-04-01 00:00:10 and the epoch itself.
UpdateTimes ==
    << {1711929610, 0},
       {1709663400, 1709712000, 0},
       {1709663400, 1709712000, 1711929610} >>

\* The bodies that also occur without update_time.
WithoutUpdateTime == {1, 2}

\* 2024-02-29 23:59:59
CreateTimes == {1709251199}

WithTimes(body, c, u) ==
    [k \in DOMAIN body \cup {"create_time", "update_time"} |->
        IF k = "create_time" THEN c ELSE IF k = "update_time" THEN u ELSE body[k]]

WithCreateTime(body, c) ==
    [k \in DOMAIN body \cup {"create_time"} |-> IF k = "create_time" THEN c ELSE body[k]]

ConversationRecords ==
    UNION {{WithTimes(Bodies[b], c, u) : c \in CreateTimes, u \in UpdateTimes[b]} :
              b \in 1..Len(Bodies)}
    \cup {WithCreateTime(Bodies[b], c) : b \in WithoutUpdateTime, c \in CreateTimes}

----------------------------------------------------------------------------
(* write_conversations_and_summary, one loop iteration per step *)

\* Only an absent update_time is skipped (`updated is None`).
not_updated_only_none(conv) == "update_time" \notin DOMAIN conv

\* Line 197: `not updated`, true of an absent (None) and of a zero update_time.
not_updated(conv) == IF "update_time" \in DOMAIN conv THEN conv.update_time = 0 ELSE TRUE

\* The loop is left after its first iteration (the flush and the return sit
\* inside the loop body).
LoopEndedEarly(i, data) == i > Len(data) \/ i > 1

\* Line 195: the for loop has run out of conversations.
LoopEnded(i, data) == i > Len(data)

\* A pair already in the manifest is not added again.
AppendInfoOnce(info, directory_path, file_name) ==
    IF \E k \in 1..Len(info) : info[k] = [directory |-> directory_path, file |-> file_name]
    THEN info
    ELSE Append(info, [directory |-> directory_path, file |-> file_name])

\* Lines 216-218.
AppendInfo(info, directory_path, file_name) ==
    Append(info, [directory |-> directory_path, file |-> file_name])

updated_date_of(conv) == fromtimestamp(conv.update_time)

file_name_of(conv) ==
    create_file_name(directory_path_of(output_dir, updated_date_of(conv)),
                     Get(conv, "title", Untitled), updated_date_of(conv))

WalkIdle ==
    /\ conversation = EmptyDict
    /\ current_node = ""
    /\ messages = << >>
    /\ result = << >>
    /\ wpc = "idle"
    /\ visits = 0

\* Lines 192-193, with the input list and an empty output directory.
Init ==
    /\ \E n \in 0..MaxConvs : conversations_data \in [1..n -> ConversationRecords]
    /\ idx = 1
    /\ created_directories_info = << >>
    /\ conversation_summary = EmptyDict
    /\ directories = {}
    /\ files = EmptyDict
    /\ summary_file = << >>
    /\ summary_writes = 0
    /\ pc = "loop"
    /\ WalkIdle

\* Lines 196-198: `continue`.
SkipConversation ==
    /\ pc = "loop"
    /\ ~LoopEnded(idx, conversations_data)
    /\ not_updated(conversations_data[idx])
    /\ idx' = idx + 1
    /\ UNCHANGED <<conversations_data, created_directories_info, conversation_summary,
                   directories, files, summary_file, summary_writes, pc>>
    /\ UNCHANGED walkVars

\* Lines 200-218: one full iteration.
ProcessConversation ==
    /\ pc = "loop"
    /\ ~LoopEnded(idx, conversations_data)
    /\ ~not_updated(conversations_data[idx])
    /\ LET conv == conversations_data[idx]
           updated_date == updated_date_of(conv)
           directory_path == directory_path_of(output_dir, updated_date)
           file_name == file_name_of(conv)
           msgs == get_conversation_messages(conv)
       IN  /\ directories' = create_directory(directories, output_dir, updated_date)
           /\ files' = write_messages_to_file(files, file_name, msgs)
           /\ conversation_summary' =
                 update_conversation_summary(conversation_summary,
                     directory_name(updated_date), conv, updated_date, msgs)
           /\ created_directories_info' =
                 AppendInfo(created_directories_info, directory_path, file_name)
    /\ idx' = idx + 1
    /\ UNCHANGED <<conversations_data, summary_file, summary_writes, pc>>
    /\ UNCHANGED walkVars

\* Lines 200-206 when write_messages_to_file raises (OSError on open or on a
\* write): nothing catches it, the exception leaves write_conversations_and_summary.
WriteFails ==
    /\ pc = "loop"
    /\ ~LoopEnded(idx, conversations_data)
    /\ ~not_updated(conversations_data[idx])
    /\ LET conv == conversations_data[idx]
           file_name == file_name_of(conv)
           lines == FileLines(get_conversation_messages(conv))
       IN  /\ directories' = create_directory(directories, output_dir, updated_date_of(conv))
           /\ \/ files' = files
              \/ \E n \in 0..(Len(lines) - 1) : files' = Put(files, file_name, SubSeq(lines, 1, n))
    /\ pc' = "aborted"
    /\ UNCHANGED <<conversations_data, idx, created_directories_info, conversation_summary,
                   summary_file, summary_writes>>
    /\ UNCHANGED walkVars

\* Lines 220-222.
WriteSummary ==
    /\ pc = "loop"
    /\ LoopEnded(idx, conversations_data)
    /\ summary_file' = write_summary_json(conversation_summary)
    /\ summary_writes' = summary_writes + 1
    /\ pc' = "done"
    /\ UNCHANGED <<conversations_data, idx, created_directories_info, conversation_summary,
                   directories, files>>
    /\ UNCHANGED walkVars

Next == SkipConversation \/ ProcessConversation \/ WriteFails \/ WriteSummary

Spec == Init /\ [][Next]_vars

----------------------------------------------------------------------------
(* Vocabulary of the claims about write_conversations_and_summary *)

HasUpdateTime(conv) == "update_time" \in DOMAIN conv

\* The conversation carries an update_time that is not zero.
HasNonZeroUpdateTime(conv) == IF HasUpdateTime(conv) THEN conv.update_time # 0 ELSE FALSE

\* The conversations whose loop iteration has completed.
Completed == 1..(idx - 1)

CompletedHaving == {j \in Completed : HasUpdateTime(conversations_data[j])}

\* The completed iterations that did not `continue`, going by the claims' reading.
CompletedNonZero == {j \in Completed : HasNonZeroUpdateTime(conversations_data[j])}

\* The elements of a set of indices, ascending.
Ascending(P) == Pick([k \in 1..Len(conversations_data) |-> k], P, 1)

\* The conversation whose transcript write failed, if the run was aborted there.
Failed == IF pc = "aborted" THEN {idx} ELSE {}

GroupOf(conv) == directory_name(updated_date_of(conv))

DirOf(conv) == directory_path_of(output_dir, updated_date_of(conv))

InfoOf(conv) == [directory |-> DirOf(conv), file |-> file_name_of(conv)]

EntryOf(conv) ==
    [title |-> Join(Get(conv, "title", Untitled)),
     create_time |-> StrfDateTime(fromtimestamp(conv.create_time)),
     update_time |-> StrfDateTime(updated_date_of(conv)),
     messages |-> get_conversation_messages(conv)]

RECURSIVE SumLen(_, _)
SumLen(d, keys) ==
    IF keys = {} THEN 0
    ELSE LET k == CHOOSE x \in keys : TRUE IN Len(d[k]) + SumLen(d, keys \ {k})

\* The number of entries of the summary, over all directory groups.
SummaryEntries == SumLen(conversation_summary, DOMAIN conversation_summary)

Range(s) == {s[k] : k \in 1..Len(s)}

\* What a run leaves of the conversations in P: no trace of any other
\* conversation, and a file, a summary entry and a manifest entry for each of P.
OnlyAndAll(P) ==
    LET convs == {conversations_data[j] : j \in P}
        failed == {conversations_data[j] : j \in Failed}
    IN  /\ directories = {DirOf(c) : c \in convs \cup failed}
        /\ {file_name_of(c) : c \in convs} \subseteq DOMAIN files
        /\ DOMAIN files \subseteq {file_name_of(c) : c \in convs \cup failed}
        /\ Range(created_directories_info) = {InfoOf(c) : c \in convs}
        /\ DOMAIN conversation_summary = {GroupOf(c) : c \in convs}
        /\ \A g \in DOMAIN conversation_summary :
              Range(conversation_summary[g]) = {EntryOf(c) : c \in {x \in convs : GroupOf(x) = g}}

----------------------------------------------------------------------------
(* Claims about write_conversations_and_summary, checked under Spec *)

\* C3: a failed write of one conversation's transcript file does not abort the
\* run: the later conversations with an update_time are still processed and the
\* summary file is still written at the end.
C3_WriteFailureDoesNotAbort ==
    pc = "aborted" =>
        /\ summary_writes = 1
        /\ \A j \in (idx + 1)..Len(conversations_data) :
              HasUpdateTime(conversations_data[j]) =>
                  /\ file_name_of(conversations_data[j]) \in DOMAIN files
                  /\ \E k \in 1..Len(created_directories_info) :
                        created_directories_info[k] = InfoOf(conversations_data[j])

\* C4 as stated: the conversations without update_time leave no directory, file,
\* summary entry or manifest entry, and every conversation that has an
\* update_time gets its file, its summary entry and its manifest entry.
C4_AsStated == OnlyAndAll(CompletedHaving)

\* C4 as amended: the conversations whose update_time is absent or zero leave no
\* directory, file, summary entry or manifest entry, and every conversation with
\* a non-zero update_time gets its file, its summary entry and its manifest
\* entry when its iteration completes.
C4_SkipLeavesNoTrace == OnlyAndAll(CompletedNonZero)

C4_Witness ==
    /\ pc = "done"
    /\ Len(conversations_data) = 3
    /\ HasNonZeroUpdateTime(conversations_data[1])
    /\ ~HasUpdateTime(conversations_data[2])
    /\ HasNonZeroUpdateTime(conversations_data[3])
    /\ Len(created_directories_info) = 2
    /\ Cardinality(DOMAIN files) = 2

\* C7: the summary list of each directory group holds exactly one entry for
\* each processed conversation of the group, in input order, whatever their
\* update times.
C7_SummaryInInputOrder ==
    /\ DOMAIN conversation_summary
          = {GroupOf(conversations_data[j]) : j \in CompletedNonZero}
    /\ \A g \in DOMAIN conversation_summary :
          LET members == Ascending({j \in CompletedNonZero :
                                       GroupOf(conversations_data[j]) = g})
          IN  conversation_summary[g]
                  = [k \in 1..Len(members) |-> EntryOf(conversations_data[members[k]])]

C7_Witness ==
    /\ pc = "done"
    /\ Len(conversations_data) >= 2
    /\ HasNonZeroUpdateTime(conversations_data[1])
    /\ HasNonZeroUpdateTime(conversations_data[2])
    /\ conversations_data[1].update_time > conversations_data[2].update_time
    /\ GroupOf(conversations_data[1]) = GroupOf(conversations_data[2])
    /\ Len(conversation_summary[GroupOf(conversations_data[1])]) >= 2
    /\ conversation_summary[GroupOf(conversations_data[1])][1].update_time
          = "2024-03-06 08:00:00"
    /\ conversation_summary[GroupOf(conversations_data[1])][2].update_time
          = "2024-03-05 18:30:00"

\* C8: when processed conversations derive the same file path, the file holds
\* exactly the transcript of the last of them in input order, and the manifest
\* and the summary still hold one entry for each of them.
C8_LaterOverwritesEarlier ==
    pc # "aborted" =>
        LET P == CompletedNonZero
        IN  /\ \A j \in P :
                 (\A k \in P : file_name_of(conversations_data[k])
                                  = file_name_of(conversations_data[j]) => k <= j)
                 => files[file_name_of(conversations_data[j])]
                       = FileLines(get_conversation_messages(conversations_data[j]))
            /\ Len(created_directories_info) = Cardinality(P)
            /\ SummaryEntries = Cardinality(P)

C8_Witness ==
    /\ pc = "done"
    /\ Len(conversations_data) = 2
    /\ HasNonZeroUpdateTime(conversations_data[1])
    /\ HasNonZeroUpdateTime(conversations_data[2])
    /\ Get(conversations_data[1], "title", Untitled)
          # Get(conversations_data[2], "title", Untitled)
    /\ file_name_of(conversations_data[1]) = file_name_of(conversations_data[2])
    /\ DOMAIN files = {"history/2024_03/2024_03_05_Q_A.txt"}
    /\ files["history/2024_03/2024_03_05_Q_A.txt"] = << "user", "other" >>
    /\ Len(created_directories_info) = 2
    /\ Len(conversation_summary["2024_03"]) = 2

\* C9: the summary file is written exactly once, after the last conversation
\* has been processed, and then holds the entries of all processed
\* conversations; while the loop runs, and after an abort inside the loop, this
\* run has not written it.
C9_SummaryFlushedOnceAtEnd ==
    /\ pc \in {"loop", "aborted"} => (summary_writes = 0 /\ summary_file = << >>)
    /\ pc = "done" =>
          /\ summary_writes = 1
          /\ idx = Len(conversations_data) + 1
          /\ summary_file = << conversation_summary >>
          /\ SumLen(summary_file[1], DOMAIN summary_file[1])
                = Cardinality({j \in 1..Len(conversations_data) :
                                  HasNonZeroUpdateTime(conversations_data[j])})

C9_Witness ==
    /\ pc = "done"
    /\ summary_writes = 1
    /\ Len(conversations_data) = 3
    /\ Cardinality(DOMAIN summary_file[1]) = 2
    /\ SumLen(summary_file[1], DOMAIN summary_file[1]) = 3

\* C10 as stated: the manifest holds exactly one {directory, file} pair for each
\* conversation that has an update_time, in input order, and is as long as the
\* summary has entries.
C10_AsStated ==
    pc # "aborted" =>
        LET members == Ascending(CompletedHaving)
        IN  /\ created_directories_info
                  = [k \in 1..Len(members) |-> InfoOf(conversations_data[members[k]])]
            /\ Len(created_directories_info) = SummaryEntries

\* C10 as amended: the manifest holds exactly one {directory, file} pair for
\* each conversation with a non-zero update_time whose iteration has completed,
\* in input order, and is as long as the summary has entries.
C10_ManifestInInputOrder ==
    LET members == Ascending(CompletedNonZero)
    IN  /\ created_directories_info
              = [k \in 1..Len(members) |-> InfoOf(conversations_data[members[k]])]
        /\ Len(created_directories_info) = SummaryEntries

C10_Witness ==
    /\ pc = "done"
    /\ Len(conversations_data) = 3
    /\ ~HasUpdateTime(conversations_data[2])
    /\ created_directories_info =
          << [directory |-> "history/2024_04",
              file |-> "history/2024_04/2024_04_01_Untitled.txt"],
             [directory |-> "history/2024_03",
              file |-> "history/2024_03/2024_03_06_Q_A.txt"] >>
    /\ SummaryEntries = 2

====
